---- MODULE Spec2Model ----
(***************************************************************************)
(* gargoyle-web-monitor: the WebAvailability monitor (src/lib.rs).         *)
(*                                                                         *)
(* A Rust String is a sequence of one-character strings, so that format!   *)
(* is concatenation and "the diagnostic contains the URL" is a substring   *)
(* test that can fail.  check() blocks in send(): it is modelled as the    *)
(* step that issues the request (check_call) and the step in which send()  *)
(* returns and the match arms run (check_return), so that the calls of two *)
(* monitors interleave at the only point where the code waits.             *)
(***************************************************************************)
EXTENDS Integers, Sequences, FiniteSets, TLC

(***************************************************************************)
(* Bounds of the model.                                                    *)
(***************************************************************************)
\* check() calls made on one monitor in a behaviour
MaxChecks == 2

(***************************************************************************)
(* Text.                                                                   *)
(***************************************************************************)
DigitChars == <<"0", "1", "2", "3", "4", "5", "6", "7", "8", "9">>

IsDigit(c) == \E i \in 1..Len(DigitChars) : DigitChars[i] = c

\* Display of an unsigned integer: its decimal digits, most significant first.
RECURSIVE ToDecimal(_)
ToDecimal(n) ==
    IF n < 10 THEN <<DigitChars[n + 1]>>
    ELSE ToDecimal(n \div 10) \o <<DigitChars[(n % 10) + 1]>>

\* str::contains
Contains(hay, needle) ==
    \E i \in 0..(Len(hay) - Len(needle)) :
        SubSeq(hay, i + 1, i + Len(needle)) = needle

\* str::starts_with
StartsWith(s, prefix) ==
    /\ Len(prefix) <= Len(s)
    /\ SubSeq(s, 1, Len(prefix)) = prefix

\* str::ends_with
EndsWith(s, suffix) ==
    /\ Len(suffix) <= Len(s)
    /\ SubSeq(s, Len(s) - Len(suffix) + 1, Len(s)) = suffix

(***************************************************************************)
(* Inputs: the URLs monitors are built for, the user agents handed to      *)
(* with_user_agent, the clients handed to with_client, and what the        *)
(* network answers.                                                        *)
(***************************************************************************)
UrlA == <<"h","t","t","p",":","/","/","a">>
UrlADeep == <<"h","t","t","p",":","/","/","a","/","4","0","4">>
UrlB == <<"h","t","t","p",":","/","/","b",":","5","0","3">>

Urls == {UrlA, UrlADeep, UrlB}

\* the URLs of a fleet of two monitors
PairUrls == {UrlA, UrlB}

\* line 47: the user agent new() sets
DefaultUserAgent == <<"G","a","r","g","o","y","l","e","/","0",".","1">>

CustomUserAgent == <<"b","o","t","/","1">>

\* a user agent with a line feed in it: no valid header value
BrokenUserAgent == <<"b","o","t","\n">>

UserAgents == {CustomUserAgent, BrokenUserAgent}

\* HeaderValue accepts a tab and the visible bytes; the control characters
\* are refused.
ControlChars == {"\n", "\r"}

ValidHeaderValue(s) == \A i \in 1..Len(s) : s[i] \notin ControlChars

\* Every status a response can carry in the model: the edges of the success
\* range, and informational, redirect, client-error and server-error codes.
Statuses == {100, 199, 200, 204, 299, 300, 301, 404, 500, 503, 999}

PairStatuses == {200, 404, 503}

\* why send() returns Err without a response
FailureCauses == {"dns", "refused", "tls"}

PairFailureCauses == {"refused"}

\* http::StatusCode::canonical_reason
canonical_reason(code) ==
    CASE code = 100 -> <<"C","o","n","t","i","n","u","e">>
      [] code = 200 -> <<"O","K">>
      [] code = 204 -> <<"N","o"," ","C","o","n","t","e","n","t">>
      [] code = 300 -> <<"M","u","l","t","i","p","l","e"," ","C","h","o","i","c","e","s">>
      [] code = 301 -> <<"M","o","v","e","d"," ","P","e","r","m","a","n","e","n","t","l","y">>
      [] code = 404 -> <<"N","o","t"," ","F","o","u","n","d">>
      [] code = 500 -> <<"I","n","t","e","r","n","a","l"," ","S","e","r","v","e","r"," ","E","r","r","o","r">>
      [] code = 503 -> <<"S","e","r","v","i","c","e"," ","U","n","a","v","a","i","l","a","b","l","e">>
      [] OTHER -> <<"<","u","n","k","n","o","w","n"," ","s","t","a","t","u","s"," ","c","o","d","e",">">>

\* Display of response.status(): the number, a space, the reason phrase.
StatusDisplay(code) == ToDecimal(code) \o <<" ">> \o canonical_reason(code)

\* mutant: only 200 counts as success
is_success_only_200(code) == code = 200

\* StatusCode::is_success, line 86
is_success(code) == 200 <= code /\ code < 300

(***************************************************************************)
(* Values.                                                                 *)
(***************************************************************************)
\* Result of Client::send
SendOk(code) == [ok |-> TRUE, status |-> code]
SendErr(cause) == [ok |-> FALSE, cause |-> cause]

\* gargoyle::Action
Nothing == [tag |-> "Nothing"]
Notify(text) == [tag |-> "Notify", diagnostic |-> [some |-> TRUE, text |-> text]]

\* how a call ends: it returns a value, or it panics
Returned(v) == [kind |-> "return", value |-> v]
Panicked == [kind |-> "panic"]

\* log records
Info(msg) == [level |-> "info", msg |-> msg]
Error(msg) == [level |-> "error", msg |-> msg]

\* the one request a check() issues, line 84
Get(url, client) == [method |-> "GET", url |-> url, user_agent |-> client.user_agent]

(***************************************************************************)
(* Construction, lines 45-78.                                              *)
(***************************************************************************)
\* Display of the reqwest error of a failed build
BuildErrorDisplay(e) ==
    CASE e = "header" -> <<"b","u","i","l","d","e","r"," ","e","r","r","o","r",":"," ","b","a","d"," ","h","e","a","d","e","r">>
      [] e = "tls" -> <<"b","u","i","l","d","e","r"," ","e","r","r","o","r",":"," ","t","l","s">>

\* Client::builder().user_agent(ua).build(): fails on a user agent that is
\* no header value and when the TLS backend cannot be set up (tls_ok is the
\* runtime environment's answer).  A built client carries reqwest's default
\* timeout.
build(user_agent, tls_ok) ==
    IF ~ValidHeaderValue(user_agent) THEN [ok |-> FALSE, err |-> "header"]
    ELSE IF ~tls_ok THEN [ok |-> FALSE, err |-> "tls"]
    ELSE [ok |-> TRUE, value |-> [user_agent |-> user_agent, timeout |-> TRUE]]

Ok(v) == [tag |-> "Ok", value |-> v]
Err(e) == [tag |-> "Err", error |-> e]

\* Result::unwrap followed by the rest of the constructor
UnwrapInto(web_client, url) ==
    IF web_client.ok
    THEN Returned(Ok([url |-> url, web_client |-> web_client.value]))
    ELSE Panicked

\* lines 45-57
new(url, tls_ok) ==
    LET web_client == build(DefaultUserAgent, tls_ok) IN
    IF ~web_client.ok
    THEN Returned(Err(BuildErrorDisplay(web_client.err)))
    ELSE UnwrapInto(web_client, url)

\* mutant: the early return on a failed build is missing
with_user_agent_unchecked(url, user_agent, tls_ok) ==
    UnwrapInto(build(user_agent, tls_ok), url)

\* lines 59-71
with_user_agent(url, user_agent, tls_ok) ==
    LET web_client == build(user_agent, tls_ok) IN
    IF ~web_client.ok
    THEN Returned(Err(BuildErrorDisplay(web_client.err)))
    ELSE UnwrapInto(web_client, url)

\* lines 73-78
with_client(url, web_client) ==
    Returned([url |-> url, web_client |-> web_client])

\* the clients a caller injects: with and without a timeout
InjectedClients ==
    {[user_agent |-> CustomUserAgent, timeout |-> t] : t \in BOOLEAN}

(***************************************************************************)
(* check(), lines 83-105, from the point where send() has returned r.      *)
(* self is the monitor before the call; the result names the monitor after *)
(* it (check takes &mut self), the records logged and how the call ends.   *)
(***************************************************************************)
\* mutant: the transport failure is reported as a 503
check_err_as_503(self, r) ==
    LET text ==
            IF r.ok
            THEN <<"F","a","i","l","e","d"," ","t","o"," ","g","e","t"," ">> \o self.url \o <<" ","-"," ">> \o StatusDisplay(r.status)
            ELSE <<"F","a","i","l","e","d"," ","t","o"," ","g","e","t"," ">> \o self.url \o <<" ","-"," ">> \o StatusDisplay(503)
    IN  IF r.ok /\ is_success(r.status)
        THEN [self |-> self, logs |-> <<Info(self.url \o <<" ","i","s"," ","u","p">>)>>,
              end |-> Returned(Nothing)]
        ELSE [self |-> self,
              logs |-> <<Info(self.url \o <<" ","i","s"," ","d","o","w","n">>), Error(text)>>,
              end |-> Returned(Notify(text))]

\* mutant: send().unwrap() instead of the Err arm
check_unwrap(self, r) ==
    IF ~r.ok
    THEN [self |-> self, logs |-> <<>>, end |-> Panicked]
    ELSE IF is_success(r.status)
    THEN [self |-> self, logs |-> <<Info(self.url \o <<" ","i","s"," ","u","p">>)>>,
          end |-> Returned(Nothing)]
    ELSE [self |-> self,
          logs |-> <<Info(self.url \o <<" ","i","s"," ","d","o","w","n">>),
                     Error(<<"F","a","i","l","e","d"," ","t","o"," ","g","e","t"," ">> \o self.url \o <<" ","-"," ">>
                           \o StatusDisplay(r.status))>>,
          end |-> Returned(Notify(<<"F","a","i","l","e","d"," ","t","o"," ","g","e","t"," ">> \o self.url \o <<" ","-"," ">>
                                  \o StatusDisplay(r.status)))]

\* mutant: the diagnostic of a bad status names the status class only
check_status_class(self, r) ==
    LET text ==
            IF r.ok
            THEN <<"F","a","i","l","e","d"," ","t","o"," ","g","e","t"," ">> \o self.url \o <<" ","-"," ">>
                 \o <<DigitChars[(r.status \div 100) + 1], "x", "x">>
            ELSE <<"F","a","i","l","e","d"," ","t","o"," ","c","o","n","n","e","c","t"," ","t","o"," ">> \o self.url
    IN  IF r.ok /\ is_success(r.status)
        THEN [self |-> self, logs |-> <<Info(self.url \o <<" ","i","s"," ","u","p">>)>>,
              end |-> Returned(Nothing)]
        ELSE [self |-> self,
              logs |-> <<Info(self.url \o <<" ","i","s"," ","d","o","w","n">>), Error(text)>>,
              end |-> Returned(Notify(text))]

\* mutant: a monitor that failed once keeps the failure (the URL is cleared)
check_sticky(self, r) ==
    LET text ==
            IF r.ok
            THEN <<"F","a","i","l","e","d"," ","t","o"," ","g","e","t"," ">> \o self.url \o <<" ","-"," ">> \o StatusDisplay(r.status)
            ELSE <<"F","a","i","l","e","d"," ","t","o"," ","c","o","n","n","e","c","t"," ","t","o"," ">> \o self.url
    IN  IF r.ok /\ is_success(r.status) /\ self.url # <<>>
        THEN [self |-> self, logs |-> <<Info(self.url \o <<" ","i","s"," ","u","p">>)>>,
              end |-> Returned(Nothing)]
        ELSE [self |-> [self EXCEPT !.url = <<>>],
              logs |-> <<Info(self.url \o <<" ","i","s"," ","d","o","w","n">>), Error(text)>>,
              end |-> Returned(Notify(text))]

\* mutant: the error record logs the URL only
check_error_logs_url(self, r) ==
    LET text ==
            IF r.ok
            THEN <<"F","a","i","l","e","d"," ","t","o"," ","g","e","t"," ">> \o self.url \o <<" ","-"," ">> \o StatusDisplay(r.status)
            ELSE <<"F","a","i","l","e","d"," ","t","o"," ","c","o","n","n","e","c","t"," ","t","o"," ">> \o self.url
    IN  IF r.ok /\ is_success(r.status)
        THEN [self |-> self, logs |-> <<Info(self.url \o <<" ","i","s"," ","u","p">>)>>,
              end |-> Returned(Nothing)]
        ELSE [self |-> self,
              logs |-> <<Info(self.url \o <<" ","i","s"," ","d","o","w","n">>), Error(self.url)>>,
              end |-> Returned(Notify(text))]

check(self, r) ==
    IF r.ok
    THEN IF is_success(r.status)
         THEN [self |-> self,
               logs |-> <<Info(self.url \o <<" ","i","s"," ","u","p">>)>>,
               end |-> Returned(Nothing)]
         ELSE [self |-> self,
               logs |-> <<Info(self.url \o <<" ","i","s"," ","d","o","w","n">>),
                          Error(<<"F","a","i","l","e","d"," ","t","o"," ","g","e","t"," ">> \o self.url \o <<" ","-"," ">>
                                \o StatusDisplay(r.status))>>,
               end |-> Returned(Notify(<<"F","a","i","l","e","d"," ","t","o"," ","g","e","t"," ">> \o self.url \o <<" ","-"," ">>
                                       \o StatusDisplay(r.status)))]
    ELSE [self |-> self,
          logs |-> <<Info(self.url \o <<" ","i","s"," ","d","o","w","n">>),
                     Error(<<"F","a","i","l","e","d"," ","t","o"," ","c","o","n","n","e","c","t"," ","t","o"," ">> \o self.url)>>,
          end |-> Returned(Notify(<<"F","a","i","l","e","d"," ","t","o"," ","c","o","n","n","e","c","t"," ","t","o"," ">> \o self.url))]

(***************************************************************************)
(* State.  Slots names the places a scheduler can hold a monitor in; fleet *)
(* is the set of slots in use.                                             *)
(***************************************************************************)
Slots == {1, 2}

VARIABLES
    fleet,     \* the slots in use, fixed in a behaviour
    made,      \* per slot: the constructor call made for it and how it ended
    monitor,   \* per slot: the WebAvailability value, fields url and web_client
    pc,        \* per slot: "idle", or "send" while check() waits in send()
    outcome,   \* per slot: what send() returned to the latest check()
    ended,     \* per slot: how the latest check() ended
    logs,      \* per slot: the log records of the latest check(), in order
    wire,      \* per slot: the requests the latest check() put on the network
    sent,      \* per slot: requests put on the network so far
    calls,     \* per slot: check() calls that have ended so far
    prev       \* per slot: the result of the check() before the latest one

vars == <<fleet, made, monitor, pc, outcome, ended, logs, wire, sent, calls, prev>>

NotMade == [entry |-> "none"]
NoMonitor == [tag |-> "none"]
NoOutcome == [ok |-> FALSE, cause |-> "none"]
NotEnded == [kind |-> "none"]

\* the inputs of a behaviour: a fleet of two draws from the smaller sets
UrlInputs == IF Cardinality(fleet) > 1 THEN PairUrls ELSE Urls
ResponseStatuses == IF Cardinality(fleet) > 1 THEN PairStatuses ELSE Statuses
FailureInputs == IF Cardinality(fleet) > 1 THEN PairFailureCauses ELSE FailureCauses

InitFleet(f) ==
    /\ fleet = f
    /\ made = [p \in Slots |-> NotMade]
    /\ monitor = [p \in Slots |-> NoMonitor]
    /\ pc = [p \in Slots |-> "idle"]
    /\ outcome = [p \in Slots |-> NoOutcome]
    /\ ended = [p \in Slots |-> NotEnded]
    /\ logs = [p \in Slots |-> <<>>]
    /\ wire = [p \in Slots |-> <<>>]
    /\ sent = [p \in Slots |-> 0]
    /\ calls = [p \in Slots |-> 0]
    /\ prev = [p \in Slots |-> "none"]

Init == InitFleet({1})

InitPair == InitFleet(Slots)

\* Healthy, Unhealthy, or how else a call ended
ResultKind(e) ==
    IF e.kind # "return" THEN e.kind
    ELSE IF e.value.tag = "Nothing" THEN "Healthy"
    ELSE "Unhealthy"

\* the monitor a constructor call leaves its caller with
Built(end) ==
    IF end.kind # "return" THEN NoMonitor
    ELSE IF "url" \in DOMAIN end.value THEN end.value
    ELSE IF end.value.tag = "Ok" THEN end.value.value
    ELSE NoMonitor

Construct(p, call) ==
    /\ p \in fleet
    /\ made[p] = NotMade
    /\ made' = [made EXCEPT ![p] = call]
    /\ monitor' = [monitor EXCEPT ![p] = Built(call.end)]
    /\ UNCHANGED <<fleet, pc, outcome, ended, logs, wire, sent, calls, prev>>

\* WebAvailability::new(url)
New(p) ==
    \E url \in UrlInputs, tls_ok \in BOOLEAN :
        Construct(p, [entry |-> "new", url |-> url, user_agent |-> DefaultUserAgent,
                      tls_ok |-> tls_ok, end |-> new(url, tls_ok)])

\* WebAvailability::with_user_agent(url, user_agent)
WithUserAgent(p) ==
    \E url \in UrlInputs, user_agent \in UserAgents, tls_ok \in BOOLEAN :
        Construct(p, [entry |-> "with_user_agent", url |-> url,
                      user_agent |-> user_agent, tls_ok |-> tls_ok,
                      end |-> with_user_agent(url, user_agent, tls_ok)])

\* WebAvailability::with_client(url, web_client)
WithClient(p) ==
    \E url \in UrlInputs, web_client \in InjectedClients :
        Construct(p, [entry |-> "with_client", url |-> url,
                      user_agent |-> web_client.user_agent, tls_ok |-> TRUE,
                      client |-> web_client,
                      end |-> with_client(url, web_client)])

\* mutant: the request is sent twice
RequestsTwice(self) ==
    <<Get(self.url, self.web_client), Get(self.url, self.web_client)>>

\* line 84: self.web_client.get(&self.url).send() puts one GET on the network
Requests(self) == <<Get(self.url, self.web_client)>>

\* mutant: one lock serialises the checks of all monitors
check_call_locked(p) ==
    /\ p \in fleet
    /\ monitor[p] # NoMonitor
    /\ pc[p] = "idle"
    /\ calls[p] < MaxChecks
    /\ \A q \in Slots : pc[q] = "idle"
    /\ pc' = [pc EXCEPT ![p] = "send"]
    /\ wire' = [wire EXCEPT ![p] = Requests(monitor[p])]
    /\ sent' = [sent EXCEPT ![p] = @ + Len(Requests(monitor[p]))]
    /\ prev' = [prev EXCEPT ![p] = ResultKind(ended[p])]
    /\ ended' = [ended EXCEPT ![p] = NotEnded]
    /\ outcome' = [outcome EXCEPT ![p] = NoOutcome]
    /\ logs' = [logs EXCEPT ![p] = <<>>]
    /\ UNCHANGED <<fleet, made, monitor, calls>>

\* check() is called and waits in send()
check_call(p) ==
    /\ p \in fleet
    /\ monitor[p] # NoMonitor
    /\ pc[p] = "idle"
    /\ calls[p] < MaxChecks
    /\ pc' = [pc EXCEPT ![p] = "send"]
    /\ wire' = [wire EXCEPT ![p] = Requests(monitor[p])]
    /\ sent' = [sent EXCEPT ![p] = @ + Len(Requests(monitor[p]))]
    /\ prev' = [prev EXCEPT ![p] = ResultKind(ended[p])]
    /\ ended' = [ended EXCEPT ![p] = NotEnded]
    /\ outcome' = [outcome EXCEPT ![p] = NoOutcome]
    /\ logs' = [logs EXCEPT ![p] = <<>>]
    /\ UNCHANGED <<fleet, made, monitor, calls>>

\* mutant: a failed request is tried again instead of being reported
check_return_retry(p, r) ==
    /\ pc[p] = "send"
    /\ IF r.ok
       THEN LET c == check(monitor[p], r) IN
            /\ pc' = [pc EXCEPT ![p] = "idle"]
            /\ monitor' = [monitor EXCEPT ![p] = c.self]
            /\ ended' = [ended EXCEPT ![p] = c.end]
            /\ logs' = [logs EXCEPT ![p] = c.logs]
            /\ outcome' = [outcome EXCEPT ![p] = r]
            /\ calls' = [calls EXCEPT ![p] = @ + 1]
            /\ UNCHANGED <<fleet, made, wire, sent, prev>>
       ELSE UNCHANGED vars

\* send() returns r and the match of lines 84-104 runs
check_return(p, r) ==
    /\ pc[p] = "send"
    /\ LET c == check(monitor[p], r) IN
        /\ pc' = [pc EXCEPT ![p] = "idle"]
        /\ monitor' = [monitor EXCEPT ![p] = c.self]
        /\ ended' = [ended EXCEPT ![p] = c.end]
        /\ logs' = [logs EXCEPT ![p] = c.logs]
        /\ outcome' = [outcome EXCEPT ![p] = r]
        /\ calls' = [calls EXCEPT ![p] = @ + 1]
    /\ UNCHANGED <<fleet, made, wire, sent, prev>>

\* the server answers with a status
Response(p) ==
    \E code \in ResponseStatuses : check_return(p, SendOk(code))

\* the request cannot be completed
TransportFailure(p) ==
    \E cause \in FailureInputs : check_return(p, SendErr(cause))

\* no answer within the client's timeout
TimeoutElapses(p) ==
    /\ pc[p] = "send"
    /\ monitor[p].web_client.timeout
    /\ check_return(p, SendErr("timeout"))

Next ==
    \E p \in Slots :
        \/ New(p)
        \/ WithUserAgent(p)
        \/ WithClient(p)
        \/ check_call(p)
        \/ Response(p)
        \/ TransportFailure(p)
        \/ TimeoutElapses(p)

\* one monitor
Spec == Init /\ [][Next]_vars

\* two monitors, checked concurrently
PairSpec == InitPair /\ [][Next]_vars

\* one monitor, and a client's timeout fires when its request stays unanswered
FairSpec == Spec /\ \A p \in Slots : WF_vars(TimeoutElapses(p))

(***************************************************************************)
(* Vocabulary of the properties.                                           *)
(***************************************************************************)
\* the latest check() of slot p has ended
Done(p) == pc[p] = "idle" /\ calls[p] > 0

Healthy(p) == ended[p] = Returned(Nothing)

Unhealthy(p) ==
    /\ ended[p].kind = "return"
    /\ ended[p].value.tag = "Notify"
    /\ ended[p].value.diagnostic.some

\* the text of the diagnostic of an Unhealthy result
Diagnostic(p) == ended[p].value.diagnostic.text

SuccessRange == 200..299

\* the diagnostics a response with a status outside the success range can
\* produce for a monitor
BadStatusDiagnostics(self) ==
    {check(self, SendOk(code)).end.value.diagnostic.text :
        code \in Statuses \ SuccessRange}

\* the indexes of the records of one level in a log
AtLevel(log, level) == {i \in 1..Len(log) : log[i].level = level}

\* the result a URL and the outcome of one request determine
ExpectedResult(url, r) ==
    IF r.ok /\ r.status \in SuccessRange THEN Returned(Nothing)
    ELSE IF r.ok
    THEN Returned(Notify(<<"F","a","i","l","e","d"," ","t","o"," ","g","e","t"," ">> \o url \o <<" ","-"," ">>
                         \o StatusDisplay(r.status)))
    ELSE Returned(Notify(<<"F","a","i","l","e","d"," ","t","o"," ","c","o","n","n","e","c","t"," ","t","o"," ">> \o url))

(***************************************************************************)
(* C1: when the request of a check() receives a response, the call returns *)
(* Healthy if and only if the status is in 200..299, and Unhealthy if and  *)
(* only if it is not.                                                      *)
(***************************************************************************)
C1_HealthyIffSuccessStatus ==
    \A p \in Slots :
        (Done(p) /\ outcome[p].ok) =>
            /\ Healthy(p) <=> outcome[p].status \in SuccessRange
            /\ Unhealthy(p) <=> outcome[p].status \notin SuccessRange

\* a 299, the upper edge of the range, was answered and the call returned Healthy
C1_Witness ==
    \E p \in Slots : Done(p) /\ outcome[p].ok /\ outcome[p].status = 299 /\ Healthy(p)

(***************************************************************************)
(* C2: a response with a status outside 200..299 makes check() return      *)
(* Unhealthy with a diagnostic that is present and contains the monitor's  *)
(* URL and the decimal status code of that response.                       *)
(***************************************************************************)
C2_BadStatusDiagnostic ==
    \A p \in Slots :
        (Done(p) /\ outcome[p].ok /\ outcome[p].status \notin SuccessRange) =>
            /\ Unhealthy(p)
            /\ Contains(Diagnostic(p), made[p].url)
            /\ Contains(Diagnostic(p), ToDecimal(outcome[p].status))

\* a 404 was answered to a monitor whose URL has no digit in it
C2_Witness ==
    \E p \in Slots :
        /\ Done(p) /\ outcome[p].ok /\ outcome[p].status = 404
        /\ made[p].url = UrlA
        /\ Unhealthy(p)

(***************************************************************************)
(* C3: a request that cannot be completed makes check() return Unhealthy   *)
(* with a diagnostic that names the URL, says that connecting failed,      *)
(* carries no status code (it ends with the URL and has no digit before    *)
(* it) and differs from every bad-status diagnostic of the same monitor.   *)
(***************************************************************************)
C3_ConnectFailureDiagnostic ==
    \A p \in Slots :
        (Done(p) /\ ~outcome[p].ok) =>
            /\ Unhealthy(p)
            /\ Contains(Diagnostic(p), made[p].url)
            /\ StartsWith(Diagnostic(p), <<"F","a","i","l","e","d"," ","t","o"," ","c","o","n","n","e","c","t">>)
            /\ EndsWith(Diagnostic(p), made[p].url)
            /\ \A i \in 1..(Len(Diagnostic(p)) - Len(made[p].url)) :
                   ~IsDigit(Diagnostic(p)[i])
            /\ Diagnostic(p) \notin BadStatusDiagnostics(monitor[p])

\* the connection was refused
C3_Witness ==
    \E p \in Slots :
        Done(p) /\ outcome[p] = SendErr("refused") /\ Unhealthy(p)

(***************************************************************************)
(* C4: whatever the request's outcome, a check() that has ended has        *)
(* returned (it did not panic), and what it returned is Healthy or an      *)
(* Unhealthy with a diagnostic.                                            *)
(***************************************************************************)
C4_CheckAlwaysReturns ==
    \A p \in Slots :
        Done(p) =>
            /\ ended[p].kind = "return"
            /\ Healthy(p) \/ Unhealthy(p)
            /\ ~(Healthy(p) /\ Unhealthy(p))

\* a DNS failure was folded into a returned value
C4_Witness ==
    \E p \in Slots :
        Done(p) /\ outcome[p] = SendErr("dns") /\ ended[p].kind = "return"

(***************************************************************************)
(* C5: a constructor call returns (no panic).  new and with_user_agent     *)
(* return Err exactly when the client cannot be built (the user agent is   *)
(* no header value, or the TLS backend fails), the Err carries the cause's *)
(* description and leaves no monitor; otherwise they return Ok of a        *)
(* monitor with the URL argument and the requested user agent.             *)
(* with_client always returns a monitor of its two arguments.              *)
(***************************************************************************)
C5_ConstructionAllOrNothing ==
    \A p \in Slots :
        made[p] # NotMade =>
            LET m == made[p]
                buildable == ValidHeaderValue(m.user_agent) /\ m.tls_ok
            IN  /\ m.end.kind = "return"
                /\ m.entry \in {"new", "with_user_agent"} =>
                    /\ m.end.value.tag \in {"Ok", "Err"}
                    /\ m.end.value.tag = "Err" <=> ~buildable
                    /\ m.end.value.tag = "Ok" =>
                        /\ m.end.value.value.url = m.url
                        /\ m.end.value.value.web_client.user_agent = m.user_agent
                        /\ monitor[p].url = m.url
                    /\ m.end.value.tag = "Err" =>
                        /\ StartsWith(m.end.value.error, <<"b","u","i","l","d","e","r"," ","e","r","r","o","r">>)
                        /\ m.end.value.error =
                               IF ~ValidHeaderValue(m.user_agent)
                               THEN BuildErrorDisplay("header")
                               ELSE BuildErrorDisplay("tls")
                        /\ monitor[p] = NoMonitor
                /\ m.entry = "with_client" =>
                    /\ m.end.value = [url |-> m.url, web_client |-> m.client]
                    /\ monitor[p].url = m.url

\* with_user_agent was given a user agent with a line feed and returned Err
C5_Witness ==
    \E p \in Slots :
        /\ made[p].entry = "with_user_agent"
        /\ made[p].user_agent = BrokenUserAgent
        /\ made[p].end.kind = "return"
        /\ made[p].end.value.tag = "Err"

(***************************************************************************)
(* C6: a monitor has put exactly as many requests on the network as        *)
(* check() calls were made on it (ended calls, plus the one waiting), and  *)
(* the latest call issued one GET for the monitor's URL.                   *)
(***************************************************************************)
C6_OneRequestPerCheck ==
    \A p \in Slots :
        /\ sent[p] = calls[p] + (IF pc[p] = "send" THEN 1 ELSE 0)
        /\ sent[p] > 0 =>
            /\ Len(wire[p]) = 1
            /\ wire[p][1].method = "GET"
            /\ wire[p][1].url = made[p].url

\* two calls failed one after the other, and two requests were sent
C6_Witness ==
    \E p \in Slots :
        /\ Done(p) /\ calls[p] = 2 /\ sent[p] = 2
        /\ prev[p] = "Unhealthy" /\ ~outcome[p].ok

(***************************************************************************)
(* C7: a step of check() leaves the monitor (URL and client) as it was,    *)
(* and the value a call returns is the one its own request's outcome       *)
(* determines, whatever the call before it returned.                       *)
(***************************************************************************)
C7_Stateless ==
    [][\A p \in Slots :
           /\ monitor[p] # NoMonitor => monitor'[p] = monitor[p]
           /\ (pc[p] = "send" /\ pc'[p] = "idle") =>
                \A before \in {"none", "Healthy", "Unhealthy"} :
                    prev[p] = before =>
                        ended'[p] = ExpectedResult(made[p].url, outcome'[p])]_vars

\* Unhealthy, then Healthy on the next call, with the monitor as constructed
C7_Witness ==
    \E p \in Slots :
        /\ Done(p) /\ prev[p] = "Unhealthy" /\ Healthy(p)
        /\ monitor[p] = Built(made[p].end)

(***************************************************************************)
(* C8: a check() on a monitor whose client carries a timeout eventually    *)
(* ends.                                                                   *)
(***************************************************************************)
C8_CheckTerminates ==
    \A p \in Slots :
        (pc[p] = "send" /\ monitor[p].web_client.timeout) ~> (pc[p] = "idle")

\* the timeout ended a call, which returned Unhealthy
C8_Witness ==
    \E p \in Slots :
        Done(p) /\ outcome[p] = SendErr("timeout") /\ Unhealthy(p)

(***************************************************************************)
(* C9 as stated: with two monitors for different URLs, each ended call     *)
(* returned what its own outcome determines, no call waits for the other,  *)
(* and no diagnostic contains the other monitor's URL or status.           *)
(***************************************************************************)
\* neither call waits for the other one
NoWaiting ==
    \A p \in fleet :
        /\ (monitor[p] # NoMonitor /\ pc[p] = "idle" /\ calls[p] < MaxChecks)
               => ENABLED check_call(p)
        /\ pc[p] = "send" => ENABLED Response(p) /\ ENABLED TransportFailure(p)

OwnResult(p) == Done(p) => ended[p] = ExpectedResult(made[p].url, outcome[p])

C9_Original ==
    \A p \in fleet : \A q \in fleet \ {p} :
        (monitor[p] # NoMonitor /\ monitor[q] # NoMonitor /\ made[p].url # made[q].url) =>
            /\ OwnResult(p)
            /\ NoWaiting
            /\ (Done(p) /\ Unhealthy(p)) =>
                /\ ~Contains(Diagnostic(p), made[q].url)
                /\ (Done(q) /\ outcome[q].ok) =>
                       ~Contains(Diagnostic(p), ToDecimal(outcome[q].status))

(***************************************************************************)
(* C9 amended: with two monitors for different URLs, each ended call       *)
(* returned exactly what its own URL and its own outcome determine, no     *)
(* call waits for the other, and a diagnostic contains the other monitor's *)
(* URL or status only where the text its own URL and outcome determine     *)
(* contains it (as when both received the same status).                    *)
(***************************************************************************)
C9_IndependentResults ==
    \A p \in fleet : \A q \in fleet \ {p} :
        (monitor[p] # NoMonitor /\ monitor[q] # NoMonitor /\ made[p].url # made[q].url) =>
            /\ OwnResult(p)
            /\ NoWaiting
            /\ (Done(p) /\ Unhealthy(p)) =>
                LET own == ExpectedResult(made[p].url, outcome[p]).value.diagnostic.text
                IN  /\ Contains(Diagnostic(p), made[q].url) => Contains(own, made[q].url)
                    /\ (Done(q) /\ outcome[q].ok) =>
                         (Contains(Diagnostic(p), ToDecimal(outcome[q].status))
                              => Contains(own, ToDecimal(outcome[q].status)))

\* two monitors for different URLs: the check of monitor 1 has returned on a
\* 404 while the first check of monitor 2 waits for its response
C9_Witness ==
    /\ made[1] # NotMade /\ made[2] # NotMade
    /\ made[1].url # made[2].url
    /\ Done(1) /\ outcome[1] = SendOk(404) /\ Unhealthy(1)
    /\ ended[1] = ExpectedResult(made[1].url, outcome[1])
    /\ pc[2] = "send" /\ calls[2] = 0
    /\ ENABLED Response(2)

(***************************************************************************)
(* C10: an ended check() has logged exactly one info record, "<url> is up" *)
(* when it returned Healthy and "<url> is down" when it returned           *)
(* Unhealthy; it has logged an error record if and only if it returned     *)
(* Unhealthy, that record is the only one, comes after the info record and *)
(* carries the text of the returned diagnostic.                            *)
(***************************************************************************)
C10_LogRecords ==
    \A p \in Slots :
        Done(p) =>
            LET infos == AtLevel(logs[p], "info")
                errors == AtLevel(logs[p], "error")
            IN  /\ Cardinality(infos) = 1
                /\ infos \cup errors = 1..Len(logs[p])
                /\ Healthy(p) =>
                    \A i \in infos : logs[p][i].msg = made[p].url \o <<" ","i","s"," ","u","p">>
                /\ Unhealthy(p) =>
                    \A i \in infos : logs[p][i].msg = made[p].url \o <<" ","i","s"," ","d","o","w","n">>
                /\ errors # {} <=> Unhealthy(p)
                /\ Unhealthy(p) =>
                    /\ Cardinality(errors) = 1
                    /\ \A i \in infos : \A j \in errors : i < j
                    /\ \A j \in errors : logs[p][j].msg = Diagnostic(p)

\* a 503 was answered: an info record, then an error record
C10_Witness ==
    \E p \in Slots :
        /\ Done(p) /\ outcome[p] = SendOk(503) /\ Unhealthy(p)
        /\ Len(logs[p]) = 2

====
